---- MODULE Spec2Model ----
(***************************************************************************)
(* UniswapLpCycle (uniswap_lp_cycle.py): a cycle-arbitrage helper over an  *)
(* ordered path of Uniswap V2 / V3 pools.  The engine's state is the swap   *)
(* path with its swap vectors, the snapshot map `pool_states` and the       *)
(* result record `best`; its operations are auto_update,                    *)
(* calculate_arbitrage, clear_best and generate_payloads.  The pools are    *)
(* owned outside the engine: their state is changed by the chain, by the    *)
(* owner of an "external" pool and by other consumers of a "polling" pool.  *)
(*                                                                         *)
(* Quantities are scaled down: reserves and inputs are a few units instead  *)
(* of wei, and the significand of a Python float is scaled with them        *)
(* (MantissaBits), so that quantities a float cannot hold exist in the      *)
(* model as they do in the program (max_input defaults to 10^20 > 2^53).    *)
(* auto_update is modelled for override_update_method = None: what the      *)
(* override does to an "external" pool is decided inside the pool library.  *)
(***************************************************************************)
EXTENDS Integers, Sequences, FiniteSets, TLC

\* ---------------------------------------------------------------- bounds
MaxLen == 2          \* longest swap path
MaxInput == 3        \* max_input of the engine
MaxOverridePos == 1  \* override_state names pools of positions 1..MaxOverridePos
MaxReserve == 16     \* the large reserve / liquidity value of a pool

\* ------------------------------------------------------ program constants
MantissaBits == 2    \* significand of float(), scaled from 53
MIN_SQRT_RATIO == 1  \* TickMath.MIN_SQRT_RATIO, scaled
MAX_SQRT_RATIO == 5  \* TickMath.MAX_SQRT_RATIO, scaled

\* ------------------------------------------------- the pools of the owner
\* Pool objects handed to the constructor: version, update discipline,
\* token pair and address.  A LiquidityPool is a pool of version 2, a
\* V3LiquidityPool one of version 3.
PoolObjects ==
  << [uniswap_version |-> 2, update_method |-> "polling",
      token0 |-> "WETH", token1 |-> "USDC", address |-> "0xA"],
     [uniswap_version |-> 3, update_method |-> "external",
      token0 |-> "WETH", token1 |-> "USDC", address |-> "0xB"],
     [uniswap_version |-> 2, update_method |-> "polling",
      token0 |-> "USDC", token1 |-> "DAI", address |-> "0xC"],
     [uniswap_version |-> 1, update_method |-> "polling",
      token0 |-> "WETH", token1 |-> "USDC", address |-> "0xD"] >>

\* the pools the engines that are followed through their calls are built
\* over: the two pools of the WETH/USDC pair.  The constructor is also given
\* the other pool objects (a pool of another pair, a pool whose version it
\* does not know).
Pools == {p \in DOMAIN PoolObjects : PoolObjects[p].address \in {"0xA", "0xB"}}

Tokens == {"WETH", "USDC", "DAI"}

Reserves == {1, MaxReserve}

Liquidities == {0, MaxReserve}

SqrtPrices == {MIN_SQRT_RATIO + 1, (MIN_SQRT_RATIO + MAX_SQRT_RATIO) \div 2,
               MAX_SQRT_RATIO - 1}

\* pool.state of a pool object, by family.  A constant-product pool is
\* funded on at least one side; a concentrated-liquidity pool with liquidity
\* is priced inside the range, one that ran dry rests at a price limit.
PoolStateSet(p) ==
  IF PoolObjects[p].uniswap_version = 2
  THEN {s \in [reserves_token0 : Reserves, reserves_token1 : Reserves] :
          s.reserves_token0 > 1 \/ s.reserves_token1 > 1}
  ELSE {s \in [liquidity : Liquidities, sqrt_price_x96 : SqrtPrices] :
          s.liquidity = 0 <=> s.sqrt_price_x96 \in {MIN_SQRT_RATIO + 1,
                                                    MAX_SQRT_RATIO - 1}}

\* the snapshot of a pool before the first _update_pool_states
None == [none |-> TRUE]

VARIABLES
  input_token,    \* self.input_token
  swap_pools,     \* self.swap_pools: sequence of pool objects (indices)
  swap_vectors,   \* self.swap_vectors
  pool_states,    \* self.pool_states: address -> snapshot
  best,           \* self.best (the fields that change)
  state,          \* pool.state of every pool object
  chain,          \* the source of truth a polling pool re-syncs from
  ret,            \* the call that has just returned, if the last step was one
  hist            \* history: has calculate_arbitrage succeeded since
                  \* construction or the last auto_update that returned true;
                  \* did the last auto_update scan every pool ("full") or stop
                  \* early ("cut"), "none" once a pool or its source has
                  \* changed since; was the call that just returned an
                  \* auto_update that followed another with no such change
                  \* and every polling pool in sync; the swap amount of the
                  \* last calculate_arbitrage that succeeded

vars == <<input_token, swap_pools, swap_vectors, pool_states, best, state,
          chain, ret, hist>>

\* ------------------------------------------------------------ arithmetic
RECURSIVE Pow2(_)
Pow2(k) == IF k = 0 THEN 1 ELSE 2 * Pow2(k - 1)

RECURSIVE Log2Floor(_)
Log2Floor(n) == IF n < 2 THEN 0 ELSE 1 + Log2Floor(n \div 2)

\* float(n) of a non-negative integer: the nearest value with MantissaBits
\* significant bits, ties to the even significand
FloatNat(n) ==
  IF n < Pow2(MantissaBits) THEN n
  ELSE LET ulp == Pow2(Log2Floor(n) - MantissaBits + 1)
           q == n \div ulp
           r == n % ulp
       IN  IF 2 * r < ulp THEN q * ulp
           ELSE IF 2 * r > ulp THEN (q + 1) * ulp
           ELSE IF q % 2 = 0 THEN q * ulp ELSE (q + 1) * ulp

\* float(n), then int() of it: int() of an integral float is exact
Float(n) == IF n < 0 THEN -FloatNat(-n) ELSE FloatNat(n)

\* ------------------------------------------------------- the constructor
\* __init__, the swap-vector loop: the vector of pool i from the token that
\* enters it, or the failure "Token could not be identified!"
\* Faulty variant: the vector follows the order of the pool's pair, whichever
\* of its tokens enters
VectorOf_PoolOrder(pool, token) ==
  IF token \in {PoolObjects[pool].token0, PoolObjects[pool].token1}
  THEN [ok |-> TRUE, token_in |-> PoolObjects[pool].token0,
        token_out |-> PoolObjects[pool].token1, zeroForOne |-> TRUE]
  ELSE [ok |-> FALSE, token_in |-> token, token_out |-> token,
        zeroForOne |-> FALSE]

VectorOf(pool, token) ==
  IF token = PoolObjects[pool].token0
  THEN [ok |-> TRUE, token_in |-> PoolObjects[pool].token0,
        token_out |-> PoolObjects[pool].token1, zeroForOne |-> TRUE]
  ELSE IF token = PoolObjects[pool].token1
  THEN [ok |-> TRUE, token_in |-> PoolObjects[pool].token1,
        token_out |-> PoolObjects[pool].token0, zeroForOne |-> FALSE]
  ELSE [ok |-> FALSE, token_in |-> token, token_out |-> token,
        zeroForOne |-> FALSE]

\* Faulty variant: only the input token is matched; a later pool that does
\* not hold the token that reaches it is entered by its token0
RECURSIVE BuildVectors_InputOnly(_, _, _, _)
BuildVectors_InputOnly(pools, i, token, acc) ==
  IF i > Len(pools)
  THEN [error |-> "none", cause |-> "none", swap_vectors |-> acc]
  ELSE LET v == VectorOf(pools[i], token)
           w == IF v.ok \/ i = 1 THEN v
                ELSE VectorOf(pools[i], PoolObjects[pools[i]].token0)
       IN  IF ~w.ok
           THEN [error |-> "ArbitrageError",
                 cause |-> "Token could not be identified!",
                 swap_vectors |-> <<>>]
           ELSE BuildVectors_InputOnly(pools, i + 1, w.token_out,
                  Append(acc, [token_in |-> w.token_in,
                               token_out |-> w.token_out,
                               zeroForOne |-> w.zeroForOne]))

RECURSIVE BuildVectors(_, _, _, _)
BuildVectors(pools, i, token, acc) ==
  IF i > Len(pools)
  THEN [error |-> "none", cause |-> "none", swap_vectors |-> acc]
  ELSE LET v == VectorOf(pools[i], token)
       IN  IF ~v.ok
           THEN [error |-> "ArbitrageError",
                 cause |-> "Token could not be identified!",
                 swap_vectors |-> <<>>]
           ELSE BuildVectors(pools, i + 1, v.token_out,
                  Append(acc, [token_in |-> v.token_in,
                               token_out |-> v.token_out,
                               zeroForOne |-> v.zeroForOne]))

\* UniswapLpCycle(input_token, swap_pools): the error it raises, or "none"
\* and the swap vectors
Construct(token, pools) ==
  IF \E i \in DOMAIN pools : PoolObjects[pools[i]].uniswap_version \notin {2, 3}
  THEN [error |-> "ArbitrageError",
        cause |-> "Could not identify Uniswap version",
        swap_vectors |-> <<>>]
  ELSE BuildVectors(pools, 1, token, <<>>)

\* the paths the model draws from: 1..MaxLen pool objects, repeats allowed
RECURSIVE SeqsUpTo(_, _)
SeqsUpTo(S, n) ==
  IF n = 0 THEN {<<>>}
  ELSE LET shorter == SeqsUpTo(S, n - 1)
       IN  shorter \cup {Append(q, x) : q \in {t \in shorter : Len(t) = n - 1},
                                        x \in S}

CandidatePaths == {q \in SeqsUpTo(Pools, MaxLen) : Len(q) >= 1}

\* the pool lists handed to the constructor
ConstructorPaths == {q \in SeqsUpTo(DOMAIN PoolObjects, MaxLen) : Len(q) >= 1}

\* ---------------------------------------------------- the pool capability
\* override_state as a dictionary: the state given for an address (the last
\* one of the list wins), or None
OverrideOf(override_state, address) ==
  LET hits == {k \in DOMAIN override_state :
                 PoolObjects[override_state[k].pool].address = address}
  IN  IF hits = {} THEN None
      ELSE override_state[CHOOSE k \in hits : \A j \in hits : j <= k].state

\* pool.calculate_tokens_out_from_tokens_in on a constant-product pool
CalcV2(st, zeroForOne, qty) ==
  LET r_in == IF zeroForOne THEN st.reserves_token0 ELSE st.reserves_token1
      r_out == IF zeroForOne THEN st.reserves_token1 ELSE st.reserves_token0
  IN  [error |-> "none", out |-> (qty * r_out) \div (r_in + qty)]

\* ... and on a concentrated-liquidity pool: a zero amount reverts, no
\* liquidity at the price boundary of the direction is a pool error, no
\* liquidity elsewhere reverts
CalcV3(st, zeroForOne, qty) ==
  IF qty = 0 THEN [error |-> "EVMRevertError", out |-> 0]
  ELSE IF st.liquidity = 0
  THEN IF \/ zeroForOne /\ st.sqrt_price_x96 = MIN_SQRT_RATIO + 1
          \/ ~zeroForOne /\ st.sqrt_price_x96 = MAX_SQRT_RATIO - 1
       THEN [error |-> "LiquidityPoolError", out |-> 0]
       ELSE [error |-> "EVMRevertError", out |-> 0]
  ELSE [error |-> "none", out |-> (qty * st.liquidity) \div (st.liquidity + qty)]

\* Faulty variant: the pool is calculated on the engine's snapshot of it, once
\* there is one
PoolCalc_OnSnapshot(pools, vectors, live, i, qty, override_state) ==
  LET pool == pools[i]
      ov == OverrideOf(override_state, PoolObjects[pool].address)
      snap == pool_states[PoolObjects[pool].address]
      st == IF ov # None THEN ov ELSE IF snap # None THEN snap ELSE live[pool]
  IN  IF PoolObjects[pool].uniswap_version = 2
      THEN CalcV2(st, vectors[i].token_in = PoolObjects[pool].token0, qty)
      ELSE CalcV3(st, vectors[i].token_in = PoolObjects[pool].token0, qty)

\* the call made at position i of the path with the state `live` of the pools
PoolCalc(pools, vectors, live, i, qty, override_state) ==
  LET pool == pools[i]
      ov == OverrideOf(override_state, PoolObjects[pool].address)
      st == IF ov = None THEN live[pool] ELSE ov
  IN  IF vectors[i].token_in \notin {PoolObjects[pool].token0, PoolObjects[pool].token1}
      THEN [error |-> "LiquidityPoolError", out |-> 0]
      ELSE IF PoolObjects[pool].uniswap_version = 2
      THEN CalcV2(st, vectors[i].token_in = PoolObjects[pool].token0, qty)
      ELSE CalcV3(st, vectors[i].token_in = PoolObjects[pool].token0, qty)

\* ------------------------------------------------------ _build_amounts_out
\* Faulty variant: every V3 record is an exact-input one
Instruction_ExactInput(i, token_in_quantity, token_out_quantity) ==
  IF PoolObjects[swap_pools[i]].uniswap_version = 2
  THEN [uniswap_version |-> 2,
        amounts |-> IF swap_vectors[i].zeroForOne
                    THEN <<0, token_out_quantity>>
                    ELSE <<token_out_quantity, 0>>]
  ELSE [uniswap_version |-> 3,
        amountSpecified |-> token_in_quantity,
        zeroForOne |-> swap_vectors[i].zeroForOne,
        sqrtPriceLimitX96 |-> IF swap_vectors[i].zeroForOne
                              THEN MIN_SQRT_RATIO + 1
                              ELSE MAX_SQRT_RATIO - 1]

\* Faulty variant: the output of a V2 pool is written in the slot of the
\* token that enters
Instruction_InputSlot(i, token_in_quantity, token_out_quantity) ==
  IF PoolObjects[swap_pools[i]].uniswap_version = 2
  THEN [uniswap_version |-> 2,
        amounts |-> IF swap_vectors[i].zeroForOne
                    THEN <<token_out_quantity, 0>>
                    ELSE <<0, token_out_quantity>>]
  ELSE [uniswap_version |-> 3,
        amountSpecified |-> IF i = 1 THEN token_in_quantity
                            ELSE -token_out_quantity,
        zeroForOne |-> swap_vectors[i].zeroForOne,
        sqrtPriceLimitX96 |-> IF swap_vectors[i].zeroForOne
                              THEN MIN_SQRT_RATIO + 1
                              ELSE MAX_SQRT_RATIO - 1]

\* the record appended for the pool at position i
Instruction(i, token_in_quantity, token_out_quantity) ==
  IF PoolObjects[swap_pools[i]].uniswap_version = 2
  THEN [uniswap_version |-> 2,
        amounts |-> IF swap_vectors[i].zeroForOne
                    THEN <<0, token_out_quantity>>
                    ELSE <<token_out_quantity, 0>>]
  ELSE [uniswap_version |-> 3,
        amountSpecified |-> IF i = 1 THEN token_in_quantity
                            ELSE -token_out_quantity,
        zeroForOne |-> swap_vectors[i].zeroForOne,
        sqrtPriceLimitX96 |-> IF swap_vectors[i].zeroForOne
                              THEN MIN_SQRT_RATIO + 1
                              ELSE MAX_SQRT_RATIO - 1]

\* the arguments of pool.calculate_tokens_out_from_tokens_in at position i
Query(i, token_in_quantity, override_state) ==
  [pool |-> swap_pools[i], token_in |-> swap_vectors[i].token_in,
   token_in_quantity |-> token_in_quantity,
   override_state |-> OverrideOf(override_state,
                                 PoolObjects[swap_pools[i]].address)]

\* Faulty variant: every pool is asked about the caller's input quantity
RECURSIVE BuildFrom_InputEverywhere(_, _, _, _, _)
BuildFrom_InputEverywhere(i, token_in_quantity, acc, queries, override_state) ==
  IF i > Len(swap_pools)
  THEN [error |-> "none", amounts |-> acc, queries |-> queries]
  ELSE LET r == PoolCalc(swap_pools, swap_vectors, state, i,
                         token_in_quantity, override_state)
           asked == Append(queries, Query(i, token_in_quantity, override_state))
       IN  IF r.error = "LiquidityPoolError"
           THEN [error |-> "ArbitrageError", amounts |-> <<>>, queries |-> asked]
           ELSE IF r.error # "none"
           THEN [error |-> r.error, amounts |-> <<>>, queries |-> asked]
           ELSE IF r.out = 0
           THEN [error |-> "ZeroSwapError", amounts |-> <<>>, queries |-> asked]
           ELSE BuildFrom_InputEverywhere(i + 1, token_in_quantity,
                          Append(acc, Instruction(i, token_in_quantity, r.out)),
                          asked, override_state)

\* the loop from position i on: a LiquidityPoolError becomes an
\* ArbitrageError, a zero output raises ZeroSwapError, any other error of the
\* pool leaves the function as it is
\* `queries` lists the calls made to the pools, in order
RECURSIVE BuildFrom(_, _, _, _, _)
BuildFrom(i, token_in_quantity, acc, queries, override_state) ==
  IF i > Len(swap_pools)
  THEN [error |-> "none", amounts |-> acc, queries |-> queries]
  ELSE LET r == PoolCalc(swap_pools, swap_vectors, state, i,
                         token_in_quantity, override_state)
           asked == Append(queries, Query(i, token_in_quantity, override_state))
       IN  IF r.error = "LiquidityPoolError"
           THEN [error |-> "ArbitrageError", amounts |-> <<>>, queries |-> asked]
           ELSE IF r.error # "none"
           THEN [error |-> r.error, amounts |-> <<>>, queries |-> asked]
           ELSE IF r.out = 0
           THEN [error |-> "ZeroSwapError", amounts |-> <<>>, queries |-> asked]
           ELSE BuildFrom(i + 1, r.out,
                          Append(acc, Instruction(i, token_in_quantity, r.out)),
                          asked, override_state)

BuildAmountsOut(token_in_quantity, override_state) ==
  BuildFrom(1, token_in_quantity, <<>>, <<>>, override_state)

\* ----------------------------------------------------- calculate_arbitrage
\* Faulty variant: the price is compared with the absolute limits of TickMath
ZeroLiquidityAt_AbsoluteLimit(i) ==
  LET pool == swap_pools[i]
      st == state[pool]
  IN  IF PoolObjects[pool].uniswap_version = 2
      THEN \/ st.reserves_token1 <= 1 /\ swap_vectors[i].zeroForOne
           \/ st.reserves_token0 <= 1 /\ ~swap_vectors[i].zeroForOne
      ELSE /\ st.liquidity = 0
           /\ \/ /\ st.sqrt_price_x96 = MIN_SQRT_RATIO
                 /\ swap_vectors[i].zeroForOne
              \/ /\ st.sqrt_price_x96 = MAX_SQRT_RATIO
                 /\ ~swap_vectors[i].zeroForOne

\* Faulty variant: a constant-product pool is rejected only when the reserve
\* is empty
ZeroLiquidityAt_EmptyOnly(i) ==
  LET pool == swap_pools[i]
      st == state[pool]
  IN  IF PoolObjects[pool].uniswap_version = 2
      THEN \/ st.reserves_token1 < 1 /\ swap_vectors[i].zeroForOne
           \/ st.reserves_token0 < 1 /\ ~swap_vectors[i].zeroForOne
      ELSE /\ st.liquidity = 0
           /\ \/ /\ st.sqrt_price_x96 = MIN_SQRT_RATIO + 1
                 /\ swap_vectors[i].zeroForOne
              \/ /\ st.sqrt_price_x96 = MAX_SQRT_RATIO - 1
                 /\ ~swap_vectors[i].zeroForOne

\* the zero-liquidity check of one position: does it raise ZeroLiquidityError
ZeroLiquidityAt(i) ==
  LET pool == swap_pools[i]
      st == state[pool]
  IN  IF PoolObjects[pool].uniswap_version = 2
      THEN \/ st.reserves_token1 <= 1 /\ swap_vectors[i].zeroForOne
           \/ st.reserves_token0 <= 1 /\ ~swap_vectors[i].zeroForOne
      ELSE /\ st.liquidity = 0
           /\ \/ /\ st.sqrt_price_x96 = MIN_SQRT_RATIO + 1
                 /\ swap_vectors[i].zeroForOne
              \/ /\ st.sqrt_price_x96 = MAX_SQRT_RATIO - 1
                 /\ ~swap_vectors[i].zeroForOne

Precheck == \E i \in DOMAIN swap_pools : ZeroLiquidityAt(i)

\* bracket_amount: the seed of the search
BracketAmount ==
  IF best.last_swap_amount # 0 THEN best.last_swap_amount ELSE MaxInput

\* Faulty variant: the error of a pool ends the trial with the quantity that
\* reached the pool
RECURSIVE TrialFrom_KeepQuantity(_, _, _)
TrialFrom_KeepQuantity(i, quantity, override_state) ==
  IF i > Len(swap_pools) THEN quantity
  ELSE LET r == PoolCalc(swap_pools, swap_vectors, state, i, quantity,
                         override_state)
       IN  IF r.error # "none" THEN quantity
           ELSE TrialFrom_KeepQuantity(i + 1, r.out, override_state)

\* the loop of arb_profit from position i on: the error of a pool ends the
\* trial with output zero, a zero output is passed on to the next pool
RECURSIVE TrialFrom(_, _, _)
TrialFrom(i, quantity, override_state) ==
  IF i > Len(swap_pools) THEN quantity
  ELSE LET r == PoolCalc(swap_pools, swap_vectors, state, i, quantity,
                         override_state)
       IN  IF r.error # "none" THEN 0
           ELSE TrialFrom(i + 1, r.out, override_state)

\* arb_profit(x) for int(x) = token_in_quantity: -float(out - in)
ArbProfit(token_in_quantity, override_state) ==
  -Float(TrialFrom(1, token_in_quantity, override_state) - token_in_quantity)

\* optimize.minimize_scalar(method="bounded"): evaluates the objective at
\* points of [1, max_input] and returns the best point it evaluated with the
\* value found there.  Which points it evaluates is its own business: any
\* integer point may be the only one evaluated, so any may be returned.
\* int(opt.x) is the integer part of a float: an integer a float holds.
Minimize(override_state) ==
  {[x |-> x, fun |-> ArbProfit(x, override_state), evaluated |-> TRUE] :
     x \in {n \in 1..MaxInput : Float(n) = n}}

\* override_state of a call: None, or a list naming one pool of the path and
\* giving it a state it is not in
OverrideChoices ==
  {<<>>} \cup UNION {{<<[pool |-> swap_pools[i], state |-> s]>> :
                        s \in PoolStateSet(swap_pools[i])
                                \ {state[swap_pools[i]]}} :
                     i \in {k \in DOMAIN swap_pools : k <= MaxOverridePos}}
\* ---------------------------------------------------------- auto_update
\* the scan of the pools from position i on, with the pool states `st` as
\* re-synced so far: a polling pool is re-synced from its source and reports
\* whether that changed it; an external pool is compared with its snapshot,
\* and a difference ends the scan
\* Faulty variant: the scan ends at the first polling pool, with what that
\* pool reported
RECURSIVE Scan_ExitOnPolling(_, _, _)
Scan_ExitOnPolling(i, st, found_updates) ==
  IF i > Len(swap_pools)
  THEN [found_updates |-> found_updates, state |-> st, scanned |-> TRUE]
  ELSE LET pool == swap_pools[i]
       IN  IF PoolObjects[pool].update_method = "polling"
           THEN [found_updates |-> found_updates \/ st[pool] # chain[pool],
                 state |-> [st EXCEPT ![pool] = chain[pool]],
                 scanned |-> i = Len(swap_pools)]
           ELSE IF st[pool] # pool_states[PoolObjects[pool].address]
           THEN [found_updates |-> TRUE, state |-> st, scanned |-> FALSE]
           ELSE Scan_ExitOnPolling(i + 1, st, found_updates)

RECURSIVE Scan(_, _, _)
Scan(i, st, found_updates) ==
  IF i > Len(swap_pools)
  THEN [found_updates |-> found_updates, state |-> st, scanned |-> TRUE]
  ELSE LET pool == swap_pools[i]
       IN  IF PoolObjects[pool].update_method = "polling"
           THEN Scan(i + 1, [st EXCEPT ![pool] = chain[pool]],
                     found_updates \/ st[pool] # chain[pool])
           ELSE IF st[pool] # pool_states[PoolObjects[pool].address]
           THEN [found_updates |-> TRUE, state |-> st, scanned |-> FALSE]
           ELSE Scan(i + 1, st, found_updates)

PathAddresses == {PoolObjects[swap_pools[i]].address : i \in DOMAIN swap_pools}

PoolAt(address) ==
  CHOOSE p \in Pools : PoolObjects[p].address = address

\* Faulty variant: the snapshot is taken before the polling pools are re-synced
UpdatedPoolStates_BeforeSync(st) == [a \in PathAddresses |-> state[PoolAt(a)]]

\* Faulty variant: only the polling pools are snapshotted
UpdatedPoolStates_PollingOnly(st) ==
  [a \in PathAddresses |->
     IF PoolObjects[PoolAt(a)].update_method = "polling" THEN st[PoolAt(a)]
     ELSE pool_states[a]]

\* _update_pool_states, with the pool states `st`
UpdatedPoolStates(st) == [a \in PathAddresses |-> st[PoolAt(a)]]

\* Faulty variant: the instruction records survive clear_best
ClearedBest_KeepAmounts ==
  [best EXCEPT !.profit_amount = 0, !.swap_amount = 0]

\* Faulty variant: the seed of the next search is cleared with the result
ClearedBest_ForgetSeed ==
  [best EXCEPT !.profit_amount = 0, !.swap_amount = 0,
               !.swap_pool_amounts = <<>>, !.last_swap_amount = 0]

\* Faulty variant: the profit survives clear_best
ClearedBest_KeepProfit ==
  [best EXCEPT !.swap_amount = 0, !.swap_pool_amounts = <<>>]

\* clear_best
ClearedBest ==
  [best EXCEPT !.profit_amount = 0, !.swap_amount = 0,
               !.swap_pool_amounts = <<>>]

\* ------------------------------------------------------ generate_payloads
ValidAddresses == {"0xCaller"} \cup {PoolObjects[p].address : p \in Pools}
                    \cup {"0xWETH", "0xUSDC"}

TokenAddress(token) == IF token = "WETH" THEN "0xWETH" ELSE "0xUSDC"

\* the destination of the swap at position i
SwapDestination(i, from_address) ==
  LET last_pool == swap_pools[Len(swap_pools)]
  IN  IF swap_pools[i] = last_pool THEN from_address
      ELSE IF PoolObjects[swap_pools[i + 1]].uniswap_version = 2
      THEN PoolObjects[swap_pools[i + 1]].address
      ELSE from_address

\* selector + abi_encode(types, values): the call it encodes, when every
\* value fits its type
TransferPayload ==
  [address |-> TokenAddress(input_token),
   calldata |-> [signature |-> "transfer(address,uint256)",
                 dst |-> PoolObjects[swap_pools[1]].address,
                 amount0 |-> best.swap_amount, amount1 |-> 0,
                 zeroForOne |-> FALSE, limit |-> 0],
   encoded |-> best.swap_amount >= 0,
   value |-> 0]

SwapPayload(i, from_address) ==
  LET rec == best.swap_pool_amounts[i]
      dst == SwapDestination(i, from_address)
  IN  IF PoolObjects[swap_pools[i]].uniswap_version = 2
      THEN [address |-> PoolObjects[swap_pools[i]].address,
            calldata |-> [signature |-> "swap(uint256,uint256,address,bytes)",
                          dst |-> dst,
                          amount0 |-> rec.amounts[1], amount1 |-> rec.amounts[2],
                          zeroForOne |-> FALSE, limit |-> 0],
            encoded |-> /\ dst \in ValidAddresses
                        /\ rec.amounts[1] >= 0 /\ rec.amounts[2] >= 0,
            value |-> 0]
      ELSE [address |-> PoolObjects[swap_pools[i]].address,
            calldata |-> [signature |-> "swap(address,bool,int256,uint160,bytes)",
                          dst |-> dst,
                          amount0 |-> rec.amountSpecified, amount1 |-> 0,
                          zeroForOne |-> rec.zeroForOne,
                          limit |-> rec.sqrtPriceLimitX96],
            encoded |-> dst \in ValidAddresses /\ rec.sqrtPriceLimitX96 >= 0,
            value |-> 0]

\* Faulty variant: the transfer is prepended whatever the first pool is
BuiltPayloads_AlwaysTransfer(from_address) ==
  <<TransferPayload>> \o [i \in DOMAIN swap_pools |-> SwapPayload(i, from_address)]

\* the list built inside the try block
BuiltPayloads(from_address) ==
  (IF PoolObjects[swap_pools[1]].uniswap_version = 2
   THEN <<TransferPayload>> ELSE <<>>)
  \o [i \in DOMAIN swap_pools |-> SwapPayload(i, from_address)]

FromAddresses == {"0xCaller", "caller"}
\* ------------------------------------------------------------- the calls
\* what a call hands back: `error` is the kind of the exception that left the
\* call ("none" when it returned), `cause` what raised it inside, `evaluated`
\* whether arb_profit was evaluated at all, `x` the integer input the optimizer
\* settled on
Idle ==
  [op |-> "none", error |-> "none", cause |-> "none", found_updates |-> FALSE,
   profitable |-> FALSE, swap_amount |-> 0, profit_amount |-> 0,
   evaluated |-> FALSE,
   x |-> 0,
   override_state |-> <<>>, from_address |-> "none", payloads |-> <<>>,
   amounts |-> <<>>, queries |-> <<>>, fun |-> 0]

\* Faulty variant: the seed is stored before the rebuild pass has succeeded
BestAfter_SeedFirst(opt, built) ==
  IF built.error = "none"
  THEN [last_swap_amount |-> opt.x, profit_amount |-> -opt.fun,
        swap_amount |-> opt.x, swap_pool_amounts |-> built.amounts]
  ELSE [best EXCEPT !.last_swap_amount = opt.x]

\* Faulty variant: only a profitable result is stored
BestAfter_ProfitableOnly(opt, built) ==
  IF built.error = "none" /\ -opt.fun > 0
  THEN [last_swap_amount |-> opt.x, profit_amount |-> -opt.fun,
        swap_amount |-> opt.x, swap_pool_amounts |-> built.amounts]
  ELSE best

\* self.best after the rebuild pass `built` of the optimum `opt`
BestAfter(opt, built) ==
  IF built.error = "none"
  THEN [last_swap_amount |-> opt.x, profit_amount |-> -opt.fun,
        swap_amount |-> opt.x, swap_pool_amounts |-> built.amounts]
  ELSE best

\* Faulty variant: the error of the rebuild pass leaves the call as it is
RebuildError_PassThrough(built) == built.error

\* the exception that leaves calculate_arbitrage after the rebuild pass
RebuildError(built) ==
  IF built.error = "none" THEN "none" ELSE "ArbitrageError"

\* calculate_arbitrage(override_state) with the optimizer's result `opt`
CalculateReturn(override_state, opt) ==
  LET built == BuildAmountsOut(opt.x, override_state)
  IN  [Idle EXCEPT !.op = "calculate_arbitrage",
                   !.error = RebuildError(built),
                   !.cause = built.error,
                   !.profitable = built.error = "none" /\ -opt.fun > 0,
                   !.swap_amount = IF built.error = "none" THEN opt.x ELSE 0,
                   !.profit_amount = IF built.error = "none" THEN -opt.fun ELSE 0,
                   !.evaluated = opt.evaluated,
                   !.fun = opt.fun,
                   !.amounts = built.amounts,
                   !.queries = built.queries,
                   !.x = opt.x,
                   !.override_state = override_state]

Init ==
  /\ input_token = "WETH"
  /\ swap_pools \in {q \in CandidatePaths : Construct("WETH", q).error = "none"}
  /\ swap_vectors = Construct(input_token, swap_pools).swap_vectors
  /\ pool_states = [a \in PathAddresses |-> None]
  /\ best = [last_swap_amount |-> 0, profit_amount |-> 0, swap_amount |-> 0,
             swap_pool_amounts |-> <<>>]
  /\ state \in [Pools -> UNION {PoolStateSet(p) : p \in Pools}]
  /\ \A p \in Pools :
       /\ state[p] \in PoolStateSet(p)
       /\ (\A i \in DOMAIN swap_pools : swap_pools[i] # p)
            => state[p] = CHOOSE s \in PoolStateSet(p) : TRUE
  /\ chain = state
  /\ ret = Idle
  /\ hist = [succeeded |-> FALSE, last_update |-> "none", second |-> FALSE,
             accepted |-> 0]

InPath(p) == \E i \in DOMAIN swap_pools : swap_pools[i] = p

\* the chain moves on: the source of a polling pool changes
ChainChange ==
  \E p \in Pools, s \in UNION {PoolStateSet(q) : q \in Pools} :
    /\ InPath(p) /\ PoolObjects[p].update_method = "polling"
    /\ s \in PoolStateSet(p) /\ s # chain[p]
    /\ chain' = [chain EXCEPT ![p] = s]
    /\ ret' = Idle
    /\ hist' = [hist EXCEPT !.last_update = "none", !.second = FALSE]
    /\ UNCHANGED <<input_token, swap_pools, swap_vectors, pool_states, best, state>>

\* the owner of an external pool gives it a new state
ExternalUpdate ==
  \E p \in Pools, s \in UNION {PoolStateSet(q) : q \in Pools} :
    /\ InPath(p) /\ PoolObjects[p].update_method = "external"
    /\ s \in PoolStateSet(p) /\ s # state[p]
    /\ state' = [state EXCEPT ![p] = s]
    /\ chain' = [chain EXCEPT ![p] = s]
    /\ ret' = Idle
    /\ hist' = [hist EXCEPT !.last_update = "none", !.second = FALSE]
    /\ UNCHANGED <<input_token, swap_pools, swap_vectors, pool_states, best>>

\* another consumer of a polling pool object re-syncs it
OtherConsumerSync ==
  \E p \in Pools :
    /\ InPath(p) /\ PoolObjects[p].update_method = "polling"
    /\ state[p] # chain[p]
    /\ state' = [state EXCEPT ![p] = chain[p]]
    /\ ret' = Idle
    /\ hist' = [hist EXCEPT !.last_update = "none", !.second = FALSE]
    /\ UNCHANGED <<input_token, swap_pools, swap_vectors, pool_states, best, chain>>

\* every polling pool of the path holds the state of its source
PollingInSync ==
  \A i \in DOMAIN swap_pools :
    PoolObjects[swap_pools[i]].update_method = "polling"
      => state[swap_pools[i]] = chain[swap_pools[i]]

\* no pool and no source of a pool has changed since the last auto_update
QuietSinceUpdate == hist.last_update # "none"

AutoUpdate ==
  LET sc == Scan(1, state, FALSE)
  IN  /\ state' = sc.state
      /\ pool_states' = IF sc.found_updates THEN UpdatedPoolStates(sc.state)
                        ELSE pool_states
      /\ best' = IF sc.found_updates THEN ClearedBest ELSE best
      /\ ret' = [Idle EXCEPT !.op = "auto_update",
                             !.found_updates = sc.found_updates]
      /\ hist' = [succeeded |-> hist.succeeded /\ ~sc.found_updates,
                  last_update |-> IF sc.scanned THEN "full" ELSE "cut",
                  second |-> QuietSinceUpdate /\ PollingInSync,
                  accepted |-> hist.accepted]
      /\ UNCHANGED <<input_token, swap_pools, swap_vectors, chain>>

CalculateArbitrage ==
  \E override_state \in OverrideChoices :
    /\ IF Precheck
       THEN /\ ret' = [Idle EXCEPT !.op = "calculate_arbitrage",
                                   !.error = "ZeroLiquidityError",
                                   !.cause = "ZeroLiquidityError",
                                   !.override_state = override_state]
            /\ hist' = [hist EXCEPT !.second = FALSE]
            /\ UNCHANGED best
       ELSE \E opt \in Minimize(override_state) :
              /\ best' = BestAfter(opt, BuildAmountsOut(opt.x, override_state))
              /\ ret' = CalculateReturn(override_state, opt)
              /\ hist' = [hist EXCEPT !.succeeded = hist.succeeded
                                                      \/ ret'.error = "none",
                                      !.second = FALSE,
                                      !.accepted = IF ret'.error = "none"
                                                   THEN opt.x ELSE hist.accepted]
    /\ UNCHANGED <<input_token, swap_pools, swap_vectors, pool_states, state, chain>>

ClearBest ==
  /\ best' = ClearedBest
  /\ ret' = [Idle EXCEPT !.op = "clear_best"]
  /\ hist' = [hist EXCEPT !.second = FALSE]
  /\ UNCHANGED <<input_token, swap_pools, swap_vectors, pool_states, state,
                 chain>>

\* the payloads built before the first one that cannot be encoded
RECURSIVE EncodedPrefix(_, _)
EncodedPrefix(payloads, k) ==
  IF k > Len(payloads) \/ ~payloads[k].encoded THEN <<>>
  ELSE <<payloads[k]>> \o EncodedPrefix(payloads, k + 1)

\* Faulty variant: a failure inside the try block hands back the payloads
\* built so far
PayloadsReturn_BuiltSoFar(from_address) ==
  IF best.swap_pool_amounts = <<>>
  THEN [Idle EXCEPT !.op = "generate_payloads", !.error = "ArbitrageError",
                    !.cause = "No arbitrage results available",
                    !.from_address = from_address]
  ELSE [Idle EXCEPT !.op = "generate_payloads",
                    !.from_address = from_address,
                    !.payloads = EncodedPrefix(BuiltPayloads(from_address), 1)]

\* generate_payloads(from_address): the error it raises, or the list
PayloadsReturn(from_address) ==
  IF best.swap_pool_amounts = <<>>
  THEN [Idle EXCEPT !.op = "generate_payloads", !.error = "ArbitrageError",
                    !.cause = "No arbitrage results available",
                    !.from_address = from_address]
  ELSE LET payloads == BuiltPayloads(from_address)
       IN  IF \A k \in DOMAIN payloads : payloads[k].encoded
           THEN [Idle EXCEPT !.op = "generate_payloads",
                             !.from_address = from_address,
                             !.payloads = payloads]
           ELSE [Idle EXCEPT !.op = "generate_payloads",
                             !.error = "ArbitrageError",
                             !.cause = "generate_payloads (catch-all)",
                             !.from_address = from_address]

GeneratePayloads ==
  \E from_address \in FromAddresses :
    /\ ret' = PayloadsReturn(from_address)
    /\ hist' = [hist EXCEPT !.second = FALSE]
    /\ UNCHANGED <<input_token, swap_pools, swap_vectors, pool_states, best,
                   state, chain>>

Next ==
  \/ ChainChange
  \/ ExternalUpdate
  \/ OtherConsumerSync
  \/ AutoUpdate
  \/ CalculateArbitrage
  \/ ClearBest
  \/ GeneratePayloads

Spec == Init /\ [][Next]_vars

\* ------------------------------- _build_amounts_out called on its own
\* _build_amounts_out(token_in, token_in_quantity, override_state), called
\* directly between the other calls of the engine
BuildAmountsOutCall ==
  \E token_in_quantity \in 1..MaxInput, override_state \in OverrideChoices :
    LET built == BuildAmountsOut(token_in_quantity, override_state)
    IN  /\ ret' = [Idle EXCEPT !.op = "_build_amounts_out",
                               !.error = built.error,
                               !.x = token_in_quantity,
                               !.override_state = override_state,
                               !.amounts = built.amounts,
                               !.queries = built.queries]
        /\ hist' = [hist EXCEPT !.second = FALSE]
        /\ UNCHANGED <<input_token, swap_pools, swap_vectors, pool_states,
                       best, state, chain>>

NextBuild ==
  \/ BuildAmountsOutCall
  \/ ExternalUpdate
  \/ AutoUpdate
  \/ CalculateArbitrage

SpecBuild == Init /\ [][NextBuild]_vars

\* ------------------------------------------------ the constructor alone
\* UniswapLpCycle(input_token, swap_pools) for any input token and any list
\* of pool objects: before the call there is no engine, after it the engine
\* holds its swap vectors, or the constructor has raised
InitConstruct ==
  /\ input_token \in Tokens
  /\ swap_pools \in ConstructorPaths
  /\ swap_vectors = <<>>
  /\ pool_states = <<>>
  /\ best = [last_swap_amount |-> 0, profit_amount |-> 0, swap_amount |-> 0,
             swap_pool_amounts |-> <<>>]
  /\ state = [p \in Pools |-> CHOOSE s \in PoolStateSet(p) : TRUE]
  /\ chain = state
  /\ ret = Idle
  /\ hist = [succeeded |-> FALSE, last_update |-> "none", second |-> FALSE,
             accepted |-> 0]

ConstructEngine ==
  LET c == Construct(input_token, swap_pools)
  IN  /\ ret.op = "none"
      /\ swap_vectors' = c.swap_vectors
      /\ pool_states' = IF c.error = "none"
                        THEN [a \in PathAddresses |-> None] ELSE pool_states
      /\ ret' = [Idle EXCEPT !.op = "__init__", !.error = c.error,
                             !.cause = c.cause]
      /\ UNCHANGED <<input_token, swap_pools, best, state, chain, hist>>

SpecConstruct == InitConstruct /\ [][ConstructEngine]_vars

\* ------------------------------------- the engine over pools that ran low
\* the reserves of a constant-product pool around the threshold of the
\* zero-liquidity check: empty, one unit, two units, funded
LowReserves == {0, 1, 2, MaxReserve}

\* a pair holds both of its tokens, or neither before it is funded
LowPoolStateSet(p) ==
  IF PoolObjects[p].uniswap_version = 2
  THEN {s \in [reserves_token0 : LowReserves, reserves_token1 : LowReserves] :
          s.reserves_token0 = 0 <=> s.reserves_token1 = 0}
  ELSE PoolStateSet(p)

\* the engine as constructed, over pools in any of these states
InitLow ==
  /\ input_token = "WETH"
  /\ swap_pools \in {q \in CandidatePaths : Construct("WETH", q).error = "none"}
  /\ swap_vectors = Construct(input_token, swap_pools).swap_vectors
  /\ pool_states = [a \in PathAddresses |-> None]
  /\ best = [last_swap_amount |-> 0, profit_amount |-> 0, swap_amount |-> 0,
             swap_pool_amounts |-> <<>>]
  /\ state \in [Pools -> UNION {LowPoolStateSet(p) : p \in Pools}]
  /\ \A p \in Pools :
       /\ state[p] \in LowPoolStateSet(p)
       /\ (\A i \in DOMAIN swap_pools : swap_pools[i] # p)
            => state[p] = CHOOSE s \in PoolStateSet(p) : TRUE
  /\ chain = state
  /\ ret = Idle
  /\ hist = [succeeded |-> FALSE, last_update |-> "none", second |-> FALSE,
             accepted |-> 0]

NextLow ==
  \/ ExternalUpdate
  \/ AutoUpdate
  \/ CalculateArbitrage

SpecLow == InitLow /\ [][NextLow]_vars
\* ================================================================ claims
PoolVersion(i) == PoolObjects[swap_pools[i]].uniswap_version

PoolAddress(i) == PoolObjects[swap_pools[i]].address

\* the output of the path for an input, computed pool by pool; -1 when a pool
\* fails
RECURSIVE FinalOutput(_, _, _)
FinalOutput(i, quantity, override_state) ==
  IF i > Len(swap_pools) THEN quantity
  ELSE LET r == PoolCalc(swap_pools, swap_vectors, state, i, quantity,
                         override_state)
       IN  IF r.error # "none" THEN -1
           ELSE FinalOutput(i + 1, r.out, override_state)

\* C1: a calculate_arbitrage call that raises (precheck, pool error or zero
\* output in the rebuild pass) leaves every field of self.best as it was.
C1_FailedCalculateKeepsBest ==
  [][(ret'.op = "calculate_arbitrage" /\ ret'.error # "none") => best' = best]_vars

C1_Witness ==
  /\ ret.op = "calculate_arbitrage"
  /\ ret.error = "ArbitrageError" /\ ret.cause = "ZeroSwapError"
  /\ best.swap_pool_amounts # <<>>

\* C2 (as claimed): after a calculate_arbitrage call that returns, the stored
\* sequence has one record per pool and the output of the path for the stored
\* swap_amount, recomputed with the same pool state and overrides, is exactly
\* swap_amount + profit_amount of the pair returned.
C2_ProfitIsExact ==
  (ret.op = "calculate_arbitrage" /\ ret.error = "none") =>
     /\ Len(best.swap_pool_amounts) = Len(swap_pools)
     /\ best.swap_amount = ret.swap_amount
     /\ FinalOutput(1, best.swap_amount, ret.override_state)
          = ret.swap_amount + ret.profit_amount

\* C3: generate_payloads raises "No arbitrage results available" and returns
\* no list whenever no calculate_arbitrage has succeeded since construction or
\* since the last auto_update that returned true, and whenever the stored
\* instruction sequence is empty.
C3_NoResultNoPayloads ==
  /\ ~hist.succeeded => best.swap_pool_amounts = <<>>
  /\ (ret.op = "generate_payloads"
        /\ (~hist.succeeded \/ best.swap_pool_amounts = <<>>)) =>
       /\ ret.error = "ArbitrageError"
       /\ ret.cause = "No arbitrage results available"
       /\ ret.payloads = <<>>

C3_Witness ==
  /\ ret.op = "generate_payloads" /\ ret.error = "ArbitrageError"
  /\ ~hist.succeeded
  /\ best.last_swap_amount # 0

\* C4 (as claimed): auto_update returns true iff some pool of the path has a
\* state (for a polling pool: after this call's re-sync) that differs from the
\* snapshot the engine held for it.
C4_TrueIffSnapshotDiffers ==
  [][ret'.op = "auto_update" =>
       (ret'.found_updates <=>
          \E i \in DOMAIN swap_pools :
            state'[swap_pools[i]] # pool_states[PoolAddress(i)])]_vars

\* C5 (as claimed): when no pool and no source of a pool has changed since the
\* previous auto_update, auto_update returns false and leaves self.best and the
\* snapshot map unchanged.
C5_QuietSecondUpdate ==
  [][(ret'.op = "auto_update" /\ QuietSinceUpdate) =>
       /\ ~ret'.found_updates
       /\ best' = best
       /\ pool_states' = pool_states]_vars

\* C5 (amended): ... and every polling pool of the path holds the state of its
\* source when the second call starts.
C5_QuietSecondUpdateInSync ==
  [][(ret'.op = "auto_update" /\ QuietSinceUpdate /\ PollingInSync) =>
       /\ ~ret'.found_updates
       /\ best' = best
       /\ pool_states' = pool_states]_vars

C5_Witness ==
  /\ ret.op = "auto_update" /\ hist.second
  /\ ~ret.found_updates
  /\ best.swap_pool_amounts # <<>>
  /\ \E i \in DOMAIN swap_pools :
       PoolObjects[swap_pools[i]].update_method = "polling"

\* C6: when auto_update returns true, the snapshot map holds the current state
\* of every pool of the path, profit_amount is 0, the instruction sequence is
\* empty, and last_swap_amount (the seed of the next search) is kept.
C6_TrueUpdateResets ==
  [][(ret'.op = "auto_update" /\ ret'.found_updates) =>
       /\ pool_states' = [a \in PathAddresses |-> state'[PoolAt(a)]]
       /\ best'.profit_amount = 0
       /\ best'.swap_amount = 0
       /\ best'.swap_pool_amounts = <<>>
       /\ best'.last_swap_amount = best.last_swap_amount]_vars

C6_Witness ==
  /\ ret.op = "auto_update" /\ ret.found_updates
  /\ best.last_swap_amount # 0
  /\ \E i \in DOMAIN swap_pools :
       PoolObjects[swap_pools[i]].update_method = "polling"

IsTransfer(payload) == payload.calldata.signature = "transfer(address,uint256)"

SwapSignature(i) ==
  IF PoolVersion(i) = 2 THEN "swap(uint256,uint256,address,bytes)"
  ELSE "swap(address,bool,int256,uint160,bytes)"

LeadingTransfers == IF PoolVersion(1) = 2 THEN 1 ELSE 0

\* C7: for a populated result and a caller address, generate_payloads returns
\* a list that starts with the transfer of swap_amount to the first pool iff
\* that pool is V2, followed by exactly one swap payload per pool in path
\* order: N + 1 payloads for a V2-first path, N for a V3-first one.
C7_PayloadList ==
  (ret.op = "generate_payloads" /\ best.swap_pool_amounts # <<>>
     /\ ret.from_address \in ValidAddresses) =>
     /\ ret.error = "none"
     /\ Len(ret.payloads) = Len(swap_pools) + LeadingTransfers
     /\ IsTransfer(ret.payloads[1]) <=> PoolVersion(1) = 2
     /\ PoolVersion(1) = 2 =>
          /\ ret.payloads[1].address = TokenAddress(input_token)
          /\ ret.payloads[1].calldata.dst = PoolAddress(1)
          /\ ret.payloads[1].calldata.amount0 = best.swap_amount
     /\ \A i \in DOMAIN swap_pools :
          /\ ret.payloads[i + LeadingTransfers].address = PoolAddress(i)
          /\ ret.payloads[i + LeadingTransfers].calldata.signature
               = SwapSignature(i)

C7_Witness ==
  /\ ret.op = "generate_payloads" /\ ret.error = "none"
  /\ Len(swap_pools) = 2 /\ PoolVersion(1) = 2 /\ PoolVersion(2) = 2
  /\ Len(ret.payloads) = 3

\* C8 (as claimed): the swap payload of position i goes to the address of the
\* pool at position i + 1 when that pool exists and is V2, and to from_address
\* when it is V3 or i is the last position.
C8_SwapDestinations ==
  (ret.op = "generate_payloads" /\ ret.error = "none") =>
     \A i \in DOMAIN swap_pools :
       ret.payloads[i + LeadingTransfers].calldata.dst
         = IF i < Len(swap_pools) /\ PoolVersion(i + 1) = 2
           THEN PoolAddress(i + 1) ELSE ret.from_address

\* a V3 pool at position i with no liquidity, resting at the price limit of
\* the direction of the trade (MIN_SQRT_RATIO + 1 for token0 -> token1,
\* MAX_SQRT_RATIO - 1 for token1 -> token0)
DryAtLimit(i) ==
  /\ PoolVersion(i) = 3
  /\ state[swap_pools[i]].liquidity = 0
  /\ state[swap_pools[i]].sqrt_price_x96
       = IF swap_vectors[i].token_in = PoolObjects[swap_pools[i]].token0
         THEN MIN_SQRT_RATIO + 1 ELSE MAX_SQRT_RATIO - 1

\* C9: with such a pool in the path, calculate_arbitrage raises
\* ZeroLiquidityError and arb_profit has not been evaluated.
C9_DryPoolRaisesFirst ==
  (ret.op = "calculate_arbitrage" /\ \E i \in DOMAIN swap_pools : DryAtLimit(i)) =>
     /\ ret.error = "ZeroLiquidityError"
     /\ ~ret.evaluated

C9_Witness ==
  /\ ret.op = "calculate_arbitrage" /\ ret.error = "ZeroLiquidityError"
  /\ swap_pools = <<2>>
  /\ swap_vectors[1].zeroForOne
  /\ state[2].liquidity = 0 /\ state[2].sqrt_price_x96 = MIN_SQRT_RATIO + 1

\* the rebuild pass for input x meets a pool that answers zero: every pool
\* before position k answers a positive amount, the pool at k answers 0
RECURSIVE ZeroOutputAt(_, _, _, _)
ZeroOutputAt(k, i, quantity, override_state) ==
  LET r == PoolCalc(swap_pools, swap_vectors, state, i, quantity, override_state)
  IN  /\ r.error = "none"
      /\ IF i = k THEN r.out = 0
         ELSE r.out > 0 /\ ZeroOutputAt(k, i + 1, r.out, override_state)

RebuildMeetsZero ==
  /\ ret.op = "calculate_arbitrage" /\ ret.evaluated
  /\ \E k \in DOMAIN swap_pools : ZeroOutputAt(k, 1, ret.x, ret.override_state)

\* C10 (as claimed): a zero output in the rebuild pass makes the call fail
\* with the ZeroSwapError kind.
C10_ZeroOutputKind == RebuildMeetsZero => ret.error = "ZeroSwapError"

\* C10 (amended): the call fails with an ArbitrageError raised in place of the
\* ZeroSwapError of the rebuild pass, after the trial passes ran to the end.
C10_ZeroOutputFails ==
  RebuildMeetsZero =>
     /\ ret.error = "ArbitrageError"
     /\ ret.cause = "ZeroSwapError"

C10_Witness ==
  /\ RebuildMeetsZero
  /\ Len(swap_pools) = 2
  /\ ZeroOutputAt(2, 1, ret.x, ret.override_state)
  /\ ret.error = "ArbitrageError"

\* the pair of a pool, the pools the constructor knows, and the token that
\* reaches position i of a list when every pool before it held the token that
\* reached it
TokenPair(p) == {PoolObjects[p].token0, PoolObjects[p].token1}

KnownVersions(pools) ==
  \A i \in DOMAIN pools : PoolObjects[pools[i]].uniswap_version \in {2, 3}

OtherToken(p, token) ==
  IF token = PoolObjects[p].token0 THEN PoolObjects[p].token1
  ELSE PoolObjects[p].token0

RECURSIVE TokenReaching(_, _, _)
TokenReaching(token, pools, i) ==
  IF i = 1 THEN token
  ELSE OtherToken(pools[i - 1], TokenReaching(token, pools, i - 1))

AdjacentConsistent(token, pools) ==
  \A i \in DOMAIN pools : TokenReaching(token, pools, i) \in TokenPair(pools[i])

\* C11: for an input token and a list of N >= 1 pools (of version 2 or 3)
\* whose adjacent tokens are consistent, the constructor produces N swap
\* vectors: vector 1 takes the input token, every later vector takes what the
\* one before gives, each vector's tokens are the pair of its pool, and
\* zeroForOne is true iff token_in is the pool's token0.
C11_SwapVectors ==
  (ret.op = "__init__" /\ KnownVersions(swap_pools)
     /\ AdjacentConsistent(input_token, swap_pools)) =>
     /\ ret.error = "none"
     /\ Len(swap_vectors) = Len(swap_pools)
     /\ swap_vectors[1].token_in = input_token
     /\ \A i \in DOMAIN swap_pools :
          /\ i > 1 => swap_vectors[i].token_in = swap_vectors[i - 1].token_out
          /\ {swap_vectors[i].token_in, swap_vectors[i].token_out}
               = TokenPair(swap_pools[i])
          /\ swap_vectors[i].zeroForOne
               <=> swap_vectors[i].token_in = PoolObjects[swap_pools[i]].token0

C11_Witness ==
  /\ ret.op = "__init__" /\ ret.error = "none"
  /\ Len(swap_vectors) = 2
  /\ swap_pools[1] # swap_pools[2]
  /\ ~swap_vectors[1].zeroForOne /\ swap_vectors[2].zeroForOne

\* C12 (as claimed): construction raises "Token could not be identified!" iff
\* the input token is not in the pair of the first pool or the token leaving
\* some pool is not in the pair of the next; in every other case it succeeds.
C12_MismatchIffAbsent ==
  ret.op = "__init__" =>
     /\ (ret.error = "ArbitrageError"
           /\ ret.cause = "Token could not be identified!")
          <=> ~AdjacentConsistent(input_token, swap_pools)
     /\ AdjacentConsistent(input_token, swap_pools) => ret.error = "none"

\* C12 (amended): ... for a list of pools of version 2 or 3; a list with a
\* pool of another version is rejected with "Could not identify Uniswap
\* version" before any token is matched.
C12_MismatchIffAbsentKnown ==
  ret.op = "__init__" =>
     /\ KnownVersions(swap_pools) =>
          /\ (ret.error = "ArbitrageError"
                /\ ret.cause = "Token could not be identified!")
               <=> ~AdjacentConsistent(input_token, swap_pools)
          /\ AdjacentConsistent(input_token, swap_pools) => ret.error = "none"
     /\ ~KnownVersions(swap_pools) =>
          /\ ret.error = "ArbitrageError"
          /\ ret.cause = "Could not identify Uniswap version"

C12_Witness ==
  /\ ret.op = "__init__" /\ ret.error = "ArbitrageError"
  /\ ret.cause = "Token could not be identified!"
  /\ Len(swap_pools) = 2
  /\ input_token \in TokenPair(swap_pools[1])

\* the record of one pool, written from what the pool answered
RecordOf(pools, vectors, i, first_quantity, out) ==
  IF PoolObjects[pools[i]].uniswap_version = 2
  THEN [uniswap_version |-> 2,
        amounts |-> IF vectors[i].token_in = PoolObjects[pools[i]].token0
                    THEN <<0, out>> ELSE <<out, 0>>]
  ELSE [uniswap_version |-> 3,
        amountSpecified |-> IF i = 1 THEN first_quantity ELSE -out,
        zeroForOne |-> vectors[i].token_in = PoolObjects[pools[i]].token0,
        sqrtPriceLimitX96 |->
          IF vectors[i].token_in = PoolObjects[pools[i]].token0
          THEN MIN_SQRT_RATIO + 1 ELSE MAX_SQRT_RATIO - 1]

\* what the capability of the pool at position i answers for a quantity, on
\* the override given for its address or else on its state in `live`
Answer(pools, vectors, live, i, quantity, override_state) ==
  LET ov == OverrideOf(override_state, PoolObjects[pools[i]].address)
      st == IF ov = None THEN live[pools[i]] ELSE ov
      zeroForOne == vectors[i].token_in = PoolObjects[pools[i]].token0
  IN  IF PoolObjects[pools[i]].uniswap_version = 2
      THEN CalcV2(st, zeroForOne, quantity)
      ELSE CalcV3(st, zeroForOne, quantity)

\* the propagation as a function of its arguments alone: the input quantity,
\* the path with its vectors, the state of the pools and the overrides
RECURSIVE Propagate(_, _, _, _, _, _, _, _)
Propagate(pools, vectors, live, override_state, first_quantity, i, quantity, acc) ==
  IF i > Len(pools) THEN [error |-> "none", amounts |-> acc]
  ELSE LET r == Answer(pools, vectors, live, i, quantity, override_state)
       IN  IF r.error = "LiquidityPoolError"
           THEN [error |-> "ArbitrageError", amounts |-> <<>>]
           ELSE IF r.error # "none" THEN [error |-> r.error, amounts |-> <<>>]
           ELSE IF r.out = 0 THEN [error |-> "ZeroSwapError", amounts |-> <<>>]
           ELSE Propagate(pools, vectors, live, override_state, first_quantity,
                          i + 1, r.out,
                          Append(acc, RecordOf(pools, vectors, i,
                                               first_quantity, r.out)))

\* C13: a call of _build_amounts_out returns what a function of (input
\* quantity, path, pool state, overrides) returns, the same sequence or the
\* same failure whatever else the engine holds, and changes neither self.best
\* nor the snapshot map nor the swap vectors nor the state of a pool.
C13_BuildIsPure ==
  [][ret'.op = "_build_amounts_out" =>
       /\ [error |-> ret'.error, amounts |-> ret'.amounts]
            = Propagate(swap_pools, swap_vectors, state, ret'.override_state,
                        ret'.x, 1, ret'.x, <<>>)
       /\ best' = best /\ pool_states' = pool_states
       /\ swap_vectors' = swap_vectors /\ state' = state]_vars

C13_Witness ==
  /\ ret.op = "_build_amounts_out" /\ ret.error = "none"
  /\ Len(ret.amounts) = 2
  /\ best.swap_pool_amounts # <<>> /\ best.swap_pool_amounts # ret.amounts
  /\ \E i \in DOMAIN swap_pools :
       /\ pool_states[PoolAddress(i)] # None
       /\ pool_states[PoolAddress(i)] # state[swap_pools[i]]

\* C14 (as claimed): when a polling pool that engines share has left the
\* state this engine snapshotted (its source has changed since, and this
\* engine or another one has re-synced the pool object), this engine's next
\* auto_update returns true and empties its result, whichever engine
\* re-synced the pool.
C14_SharedPoolChangeSeen ==
  [][(/\ ret'.op = "auto_update"
      /\ \E i \in DOMAIN swap_pools :
           /\ PoolObjects[swap_pools[i]].update_method = "polling"
           /\ pool_states[PoolAddress(i)] # None
           /\ pool_states[PoolAddress(i)] # state'[swap_pools[i]]) =>
       /\ ret'.found_updates
       /\ best'.swap_pool_amounts = <<>>]_vars

\* C15: the bracket_amount of a calculate_arbitrage call is the swap amount of
\* the most recent calculate_arbitrage that succeeded, whatever auto_update,
\* clear_best and failed calls came after it, and max_input when none has
\* succeeded.
C15_SeedFromLastSuccess ==
  BracketAmount = IF hist.accepted # 0 THEN hist.accepted ELSE MaxInput

C15_Witness ==
  /\ ret.op = "calculate_arbitrage" /\ ret.error # "none"
  /\ hist.accepted # 0 /\ hist.accepted # MaxInput
  /\ ~hist.succeeded
  /\ best.swap_pool_amounts = <<>>
  /\ BracketAmount = hist.accepted

\* the result held is empty and zero, or complete
ResultShape ==
  /\ Len(best.swap_pool_amounts) \in {0, Len(swap_pools)}
  /\ best.swap_pool_amounts = <<>> =>
       best.profit_amount = 0 /\ best.swap_amount = 0
  /\ best.swap_pool_amounts # <<>> =>
       /\ best.swap_amount = best.last_swap_amount
       /\ best.swap_amount = hist.accepted

\* a result held after a step is the one held before it, or the swap amount,
\* the profit and the records of the calculate_arbitrage call that has just
\* succeeded
ResultStep ==
  best'.swap_pool_amounts # <<>> =>
    \/ best' = best
    \/ /\ ret'.op = "calculate_arbitrage" /\ ret'.error = "none"
       /\ best'.swap_amount = ret'.swap_amount
       /\ best'.profit_amount = ret'.profit_amount
       /\ best'.swap_pool_amounts
            = Propagate(swap_pools, swap_vectors, state, ret'.override_state,
                        ret'.swap_amount, 1, ret'.swap_amount, <<>>).amounts

\* C16: in every reachable state the stored instruction sequence is empty or
\* has one record per pool; when it is empty profit_amount and swap_amount are
\* 0; when it is not, swap_amount, profit_amount and the sequence come from
\* one successful calculate_arbitrage call and swap_amount is
\* last_swap_amount.
C16_ResultIsWhole == []ResultShape /\ [][ResultStep]_vars

C16_Witness ==
  /\ ret.op = "calculate_arbitrage" /\ ret.error # "none"
  /\ best.swap_pool_amounts # <<>>
  /\ best.profit_amount # 0
  /\ Len(best.swap_pool_amounts) = 2

\* a pass of _build_amounts_out (the rebuild pass of calculate_arbitrage, or
\* a direct call) has returned its records; what it asked the pool at
\* position i, and what that pool answers to it
BuildSucceeded ==
  ret.op \in {"calculate_arbitrage", "_build_amounts_out"} /\ ret.error = "none"

Asked(i) == ret.queries[i].token_in_quantity

Answered(i) ==
  Answer(swap_pools, swap_vectors, state, i, Asked(i), ret.override_state).out

\* C17: in a successful pass over N pools the first pool is asked about the
\* caller's quantity and every later pool about exactly what the pool before
\* it answered, with the token_in of its swap vector and the override given
\* for its address; the pass returns N records, record i for pool i.
C17_OutputFeedsNextPool ==
  BuildSucceeded =>
     /\ Len(ret.queries) = Len(swap_pools)
     /\ Len(ret.amounts) = Len(swap_pools)
     /\ Asked(1) = ret.x
     /\ \A i \in DOMAIN swap_pools :
          /\ i > 1 => Asked(i) = Answered(i - 1)
          /\ ret.queries[i].pool = swap_pools[i]
          /\ ret.queries[i].token_in = swap_vectors[i].token_in
          /\ ret.queries[i].override_state
               = OverrideOf(ret.override_state, PoolAddress(i))
          /\ ret.amounts[i].uniswap_version = PoolVersion(i)

C17_Witness ==
  /\ BuildSucceeded
  /\ Len(swap_pools) = 2
  /\ ret.override_state # <<>>
  /\ Asked(2) # ret.x
  /\ PoolVersion(1) # PoolVersion(2)

\* C18: for every V3 step of a successful pass, amountSpecified is the
\* (positive) input quantity of the path at position 0 and minus the output
\* of the step (negative) at every later position, zeroForOne is the flag of
\* the swap vector, and the price limit is MIN_SQRT_RATIO + 1 when zeroForOne
\* and MAX_SQRT_RATIO - 1 otherwise.
C18_V3Record ==
  BuildSucceeded =>
     \A i \in DOMAIN swap_pools :
       PoolVersion(i) = 3 =>
         /\ i = 1 => /\ ret.amounts[i].amountSpecified = ret.x
                     /\ ret.amounts[i].amountSpecified > 0
         /\ i > 1 => /\ ret.amounts[i].amountSpecified = -Answered(i)
                     /\ ret.amounts[i].amountSpecified < 0
         /\ ret.amounts[i].zeroForOne = swap_vectors[i].zeroForOne
         /\ ret.amounts[i].sqrtPriceLimitX96
              = IF swap_vectors[i].zeroForOne THEN MIN_SQRT_RATIO + 1
                ELSE MAX_SQRT_RATIO - 1

C18_Witness ==
  /\ BuildSucceeded
  /\ Len(swap_pools) = 2 /\ PoolVersion(1) = 3 /\ PoolVersion(2) = 3
  /\ ret.amounts[1].amountSpecified > 0
  /\ ret.amounts[2].amountSpecified < 0
  /\ ret.amounts[2].amountSpecified # -ret.x
  /\ ret.amounts[2].sqrtPriceLimitX96 = MAX_SQRT_RATIO - 1

\* C19: for every V2 step of a successful pass, the recorded pair has one zero
\* slot and one positive slot holding the output of the step: the slot of
\* token1 when token_in is token0, the slot of token0 when token_in is token1.
C19_V2Record ==
  BuildSucceeded =>
     \A i \in DOMAIN swap_pools :
       PoolVersion(i) = 2 =>
         LET into0 == swap_vectors[i].token_in = PoolObjects[swap_pools[i]].token0
             slot_in == IF into0 THEN 1 ELSE 2
             slot_out == IF into0 THEN 2 ELSE 1
         IN  /\ Len(ret.amounts[i].amounts) = 2
             /\ ret.amounts[i].amounts[slot_in] = 0
             /\ ret.amounts[i].amounts[slot_out] = Answered(i)
             /\ ret.amounts[i].amounts[slot_out] > 0

C19_Witness ==
  /\ BuildSucceeded
  /\ Len(swap_pools) = 2 /\ PoolVersion(1) = 2 /\ PoolVersion(2) = 2
  /\ ret.amounts[1].amounts[1] = 0 /\ ret.amounts[1].amounts[2] > 0
  /\ ret.amounts[2].amounts[2] = 0 /\ ret.amounts[2].amounts[1] > 0

\* a trial of the objective for a quantity meets a pool that raises
\* (LiquidityPoolError or EVMRevertError) at or after position i
RECURSIVE TrialMeetsError(_, _, _)
TrialMeetsError(i, quantity, override_state) ==
  IF i > Len(swap_pools) THEN FALSE
  ELSE LET r == Answer(swap_pools, swap_vectors, state, i, quantity,
                       override_state)
       IN  \/ r.error # "none"
           \/ TrialMeetsError(i + 1, r.out, override_state)

\* C20: when a pool raises during the trial of the input the optimizer
\* settles on, the search has still run to its end, the objective has
\* returned the input quantity (output zero), and the rebuild pass for that
\* input makes calculate_arbitrage fail.
C20_TrialErrorIsZeroOutput ==
  (ret.op = "calculate_arbitrage" /\ ret.error # "ZeroLiquidityError"
     /\ TrialMeetsError(1, ret.x, ret.override_state)) =>
     /\ ret.evaluated
     /\ ret.fun = ret.x
     /\ ret.error = "ArbitrageError"
     /\ ret.cause \in {"ArbitrageError", "EVMRevertError", "ZeroSwapError"}

C20_Witness ==
  /\ ret.op = "calculate_arbitrage" /\ ret.evaluated
  /\ TrialMeetsError(1, ret.x, ret.override_state)
  /\ ret.fun = ret.x /\ ret.x > 1
  /\ ret.error = "ArbitrageError" /\ ret.cause = "EVMRevertError"
  /\ Len(swap_pools) = 2 /\ PoolVersion(2) = 3

\* the reserve a constant-product pool at position i pays out of
OutputReserve(i) ==
  IF swap_vectors[i].token_in = PoolObjects[swap_pools[i]].token0
  THEN state[swap_pools[i]].reserves_token1
  ELSE state[swap_pools[i]].reserves_token0

\* C21 (as claimed): with a V2 pool at any position whose output-side reserve
\* is below one unit, calculate_arbitrage raises ZeroLiquidityError before any
\* trial; a V2 pool whose output-side reserve is at least one unit is not
\* rejected by the check (the call raises ZeroLiquidityError only for a V2 pool
\* below one unit or a dry V3 pool at its price limit).
C21_SubUnitReserveRejected ==
  ret.op = "calculate_arbitrage" =>
     /\ (\E i \in DOMAIN swap_pools :
           PoolVersion(i) = 2 /\ OutputReserve(i) < 1) =>
          ret.error = "ZeroLiquidityError" /\ ~ret.evaluated
     /\ ret.error = "ZeroLiquidityError" =>
          \E i \in DOMAIN swap_pools :
            \/ PoolVersion(i) = 2 /\ OutputReserve(i) < 1
            \/ DryAtLimit(i)

\* C21 (amended): the threshold is one unit, inclusive: an output-side
\* reserve of at most one unit is rejected before any trial, one of at least
\* two units is not rejected.
C21_LowReserveRejected ==
  ret.op = "calculate_arbitrage" =>
     /\ (\E i \in DOMAIN swap_pools :
           PoolVersion(i) = 2 /\ OutputReserve(i) <= 1) =>
          ret.error = "ZeroLiquidityError" /\ ~ret.evaluated
     /\ ret.error = "ZeroLiquidityError" =>
          \E i \in DOMAIN swap_pools :
            \/ PoolVersion(i) = 2 /\ OutputReserve(i) <= 1
            \/ DryAtLimit(i)

C21_Witness ==
  /\ ret.op = "calculate_arbitrage" /\ ret.error = "ZeroLiquidityError"
  /\ Len(swap_pools) = 2 /\ PoolVersion(1) = 3 /\ PoolVersion(2) = 2
  /\ ~DryAtLimit(1)
  /\ OutputReserve(2) = 1

\* C22: generate_payloads returns the complete list (one swap payload per
\* pool, after the transfer when the first pool is V2), every payload with
\* value 0, or raises ArbitrageError and returns no list, never a part of the
\* list; whether it returns or raises, self.best and the snapshot map are as
\* they were before the call.
C22_AllOrNothing ==
  [][ret'.op = "generate_payloads" =>
       /\ \/ /\ ret'.error = "none"
             /\ Len(ret'.payloads) = Len(swap_pools) + LeadingTransfers
             /\ \A k \in DOMAIN ret'.payloads : ret'.payloads[k].value = 0
          \/ /\ ret'.error = "ArbitrageError"
             /\ ret'.payloads = <<>>
       /\ best' = best
       /\ pool_states' = pool_states]_vars

C22_Witness ==
  /\ ret.op = "generate_payloads" /\ ret.error = "ArbitrageError"
  /\ ret.cause = "generate_payloads (catch-all)"
  /\ best.swap_pool_amounts # <<>>
  /\ Len(swap_pools) = 2 /\ PoolVersion(1) = 2 /\ PoolVersion(2) = 2
  /\ pool_states[PoolAddress(1)] # None

\* C23 (as claimed): every engine the constructor accepts is a cycle: the
\* token_out of its last swap vector is its input token.
C23_AcceptedIsCycle ==
  (ret.op = "__init__" /\ ret.error = "none") =>
     swap_vectors[Len(swap_vectors)].token_out = input_token

PollingAt(i) == PoolObjects[swap_pools[i]].update_method = "polling"

\* an external pool of the path is not in the state the engine snapshotted
ExternalChanged ==
  \E i \in DOMAIN swap_pools :
    ~PollingAt(i) /\ state[swap_pools[i]] # pool_states[PoolAddress(i)]

NonProfitableStored ==
  (ret.op = "calculate_arbitrage" /\ ret.error = "none" /\ ~ret.profitable) =>
     /\ ret.profit_amount <= 0
     /\ best.swap_amount = ret.swap_amount
     /\ best.last_swap_amount = ret.swap_amount
     /\ best.profit_amount = ret.profit_amount
     /\ Len(best.swap_pool_amounts) = Len(swap_pools)
     /\ best.swap_pool_amounts
          = Propagate(swap_pools, swap_vectors, state, ret.override_state,
                      ret.swap_amount, 1, ret.swap_amount, <<>>).amounts

\* C25 (as claimed): a calculate_arbitrage call that returns profitable =
\* false has stored its swap_amount, profit_amount and full instruction
\* sequence; generate_payloads succeeds exactly when the stored sequence is
\* not empty, whatever the sign of profit_amount.
C25_ServedWheneverStored ==
  /\ NonProfitableStored
  /\ ret.op = "generate_payloads" =>
       (ret.error = "none" <=> best.swap_pool_amounts # <<>>)

\* C25 (amended): ... generate_payloads, given an address as from_address,
\* succeeds exactly when the stored sequence is not empty.
C25_ServedWheneverStoredForAddress ==
  /\ NonProfitableStored
  /\ (ret.op = "generate_payloads" /\ ret.from_address \in ValidAddresses) =>
       (ret.error = "none" <=> best.swap_pool_amounts # <<>>)

C25_Witness ==
  /\ ret.op = "generate_payloads" /\ ret.error = "none"
  /\ ret.from_address \in ValidAddresses
  /\ best.profit_amount < 0
  /\ Len(ret.payloads) = Len(swap_pools) + LeadingTransfers
  /\ Len(swap_pools) = 2
====
